---- MODULE Spec2Model ----
(***************************************************************************)
(* pdfdiff: visual regression of PDF exports against stored reference      *)
(* PNGs.  The model covers the result records (comparator.py), the page    *)
(* aligner, the reference directory with its file-name convention, the     *)
(* comparison run (compare_directory / compare_one) and the interactive    *)
(* approval workflow (_handle_interactive) of cli.py, and the exit code of *)
(* main.                                                                   *)
(* The scorer is modelled twice: page images of documents are scored from  *)
(* a table, one-window pixel images by structural_similarity's formula.    *)
(*                                                                         *)
(* Units: ssim_score is kept in thousandths (1000 = 1.0) and a threshold   *)
(* in tenths of a percent (990 = 99.0), so  score * 100 >= threshold  of   *)
(* the code is  ssim_score >= threshold  here.                             *)
(***************************************************************************)
EXTENDS Integers, Sequences, FiniteSets, TLC

\* ------------------------------------------------------------------ bounds
MaxPages == 10
MaxPagesExt == 2
MaxFailAt == 2
MaxVer == 2
MaxUnitLen == 2
MaxPattern == 3

\* --------------------------------------------------------- program constants
DEFAULT_THRESHOLD == 990

\* ------------------------------------------------------------------ helpers
Min(a, b) == IF a <= b THEN a ELSE b

Range(s) == {s[i] : i \in 1..Len(s)}

SeqsUpTo(S, n) == UNION {[1..k -> S] : k \in 0..n}

\* --------------------------------------------------------------- file names
\* A file name is the sequence of its tokens without the extension:
\* "S_page_12.png" is <<"S", "_page_", "1", "2">>.
DigitChars == <<"0", "1", "2", "3", "4", "5", "6", "7", "8", "9">>

\* The documents of the test directory: "S.pdf" and "S_page_1.pdf".
Stems == {"S", "S_page_1"}

StemToks(stem) == IF stem = "S" THEN <<"S">> ELSE <<"S", "_page_", "1">>

\* str(i) for a page index.
Digits(k) ==
    IF k < 10 THEN <<DigitChars[k + 1]>>
    ELSE <<DigitChars[(k \div 10) + 1], DigitChars[(k % 10) + 1]>>

\* f"{stem}_page_{i}.png"
PageFile(stem, i) == StemToks(stem) \o <<"_page_">> \o Digits(i)

\* Code point order of the characters that decide a comparison of two names:
\* '.' (the extension, i.e. the end of the token sequence) < digits < 'S' < '_'.
CharRank(c) ==
    IF c = "_page_" THEN 12
    ELSE IF c = "S" THEN 11
    ELSE CHOOSE r \in 1..10 : DigitChars[r] = c

RECURSIVE LexLess(_, _)
LexLess(a, b) ==
    IF a = <<>> THEN b # <<>>
    ELSE IF b = <<>> THEN FALSE
    ELSE IF Head(a) # Head(b) THEN CharRank(Head(a)) < CharRank(Head(b))
    ELSE LexLess(Tail(a), Tail(b))

\* sorted(...) of a set of names: ascending string order.
RECURSIVE SortedNames(_)
SortedNames(S) ==
    IF S = {} THEN <<>>
    ELSE LET m == CHOOSE x \in S : \A y \in S \ {x} : LexLess(x, y)
         IN  <<m>> \o SortedNames(S \ {m})

IsPrefix(p, s) == Len(p) <= Len(s) /\ SubSeq(s, 1, Len(p)) = p

\* fnmatch of f"{stem}_page_*.png": the name starts with "<stem>_page_".
GlobMatches(stem, name) == IsPrefix(StemToks(stem) \o <<"_page_">>, name)

DigitVal(c) == (CHOOSE r \in 1..10 : DigitChars[r] = c) - 1

RECURSIVE IntOf(_)
IntOf(ds) ==
    IF ds = <<>> THEN 0
    ELSE 10 * IntOf(SubSeq(ds, 1, Len(ds) - 1)) + DigitVal(ds[Len(ds)])

\* int(old.stem.split("_page_")[-1])
PageNumOf(name) ==
    LET last == CHOOSE i \in 1..Len(name) :
                    /\ name[i] = "_page_"
                    /\ \A j \in (i + 1)..Len(name) : name[j] # "_page_"
    IN  IntOf(SubSeq(name, last + 1, Len(name)))

\* ----------------------------------------------------------------- documents
\* A PDF of the test directory: its page count n and a content version v; the
\* image of page i is <<stem, v, i>>.  "corrupt" cannot be opened by PyMuPDF,
\* "absent" is a path with no file.
Absent == [kind |-> "absent", n |-> 0, v |-> 0]
Corrupt == [kind |-> "corrupt", n |-> 0, v |-> 0]

\* The documents the test directory may hold.  "S.pdf" is the document under
\* test: short, or long enough for two-digit page numbers, in any version,
\* unreadable or empty.  "S_page_1.pdf" is a bystander whose content is fixed.
DocsOf(stem) ==
    IF stem = "S" THEN
        {Absent, Corrupt, [kind |-> "pdf", n |-> 0, v |-> 1]}
            \cup {[kind |-> "pdf", n |-> n, v |-> v] :
                     n \in {1, 2, MaxPages}, v \in 1..MaxVer}
    ELSE
        {Absent} \cup {[kind |-> "pdf", n |-> n, v |-> 1] : n \in 1..MaxPagesExt}

\* render_pdf that returns the empty list for a document without pages.
render_pdf_empty_list(stem, doc) ==
    IF doc.kind = "absent"
        THEN [ok |-> FALSE, images |-> <<>>, err |-> "PDF not found"]
    ELSE IF doc.kind = "corrupt"
        THEN [ok |-> FALSE, images |-> <<>>, err |-> "Failed to open PDF"]
    ELSE [ok |-> TRUE, images |-> [i \in 1..doc.n |-> <<stem, doc.v, i>>],
          err |-> "none"]

\* render_pdf: the list of page images, or the exception it raises.
render_pdf(stem, doc) ==
    IF doc.kind = "absent"
        THEN [ok |-> FALSE, images |-> <<>>, err |-> "PDF not found"]
    ELSE IF doc.kind = "corrupt"
        THEN [ok |-> FALSE, images |-> <<>>, err |-> "Failed to open PDF"]
    ELSE IF doc.n = 0
        THEN [ok |-> FALSE, images |-> <<>>, err |-> "PDF has no pages"]
    ELSE [ok |-> TRUE, images |-> [i \in 1..doc.n |-> <<stem, doc.v, i>>],
          err |-> "none"]

\* ------------------------------------------------------------ result records
\* Raster images given pixel by pixel: <<"px", k, inv>> is the WinSize x WinSize
\* grayscale image whose pixel i (row-major, from 1) is white (255) when k > 0
\* and k divides i, black (0) otherwise, and the negative of that when inv = 1.
\* WinSize is the side of structural_similarity's default window, so such an
\* image is the smallest one the scorer accepts and holds exactly one window.
WinSize == 7

PixelImages == {<<"px", k, inv>> : k \in 0..MaxPattern, inv \in 0..1}

Bit(img, i) ==
    LET b == IF img[2] > 0 /\ i % img[2] = 0 THEN 1 ELSE 0
    IN  IF img[3] = 1 THEN 1 - b ELSE b

Pixels(img) == [i \in 1..(WinSize * WinSize) |-> 255 * Bit(img, i)]

\* floor(1000 * num / den) for 0 <= num <= den, by long division.
Thousandths(num, den) ==
    IF num = den THEN 1000
    ELSE LET d1 == (10 * num) \div den
             r1 == (10 * num) % den
             d2 == (10 * r1) \div den
             r2 == (10 * r1) % den
             d3 == (10 * r2) \div den
         IN  100 * d1 + 10 * d2 + d3

\* skimage.metrics.structural_similarity(x, y) with its defaults (win_size 7,
\* uniform window, sample covariance, K1 = 0.01, K2 = 0.03, data_range 255) on
\* two images of one window, in thousandths.  With nx, ny the numbers of white
\* pixels and nxy the number of pixels white in both, and every term divided
\* by 255^2 and scaled to integers:
\*   A1 = 2 ux uy + C1,  B1 = ux^2 + uy^2 + C1   (times 10^4 NP^2)
\*   A2 = 2 vxy + C2,    B2 = vx + vy + C2       (times 10^4 NP (NP - 1))
\* and the score is (A1 * A2) / (B1 * B2).
structural_similarity(x, y) ==
    LET NP == WinSize * WinSize
        nx == Cardinality({i \in 1..NP : Bit(x, i) = 1})
        ny == Cardinality({i \in 1..NP : Bit(y, i) = 1})
        nxy == Cardinality({i \in 1..NP : Bit(x, i) = 1 /\ Bit(y, i) = 1})
        A1 == 20000 * nx * ny + NP * NP
        B1 == 10000 * (nx * nx + ny * ny) + NP * NP
        A2 == 20000 * (NP * nxy - nx * ny) + 9 * NP * (NP - 1)
        B2 == 10000 * ((NP * nx - nx * nx) + (NP * ny - ny * ny))
                  + 9 * NP * (NP - 1)
        luminance == Thousandths(A1, B1)
        structure == Thousandths(IF A2 >= 0 THEN A2 ELSE 0 - A2, B2)
        magnitude == (luminance * structure) \div 1000
    IN  IF A2 >= 0 THEN magnitude ELSE 0 - magnitude

\* skimage's structural_similarity as compare_images calls it, in thousandths.
\* Pixel images are scored by the formula; for the page images of a document,
\* identical images score 1.0, two versions of one page differ slightly and
\* unrelated pages differ a lot.
ssim(ref, test) ==
    IF ref[1] = "px" /\ test[1] = "px" THEN structural_similarity(ref, test)
    ELSE IF ref = test THEN 1000
    ELSE IF ref[1] = test[1] /\ ref[3] = test[3] THEN 985
    ELSE 400

\* Images with their shape: obj names the array, shape is <<height, width>>,
\* and scaled_from is the shape of the array cv2.resize made it from, <<0, 0>>
\* for an array that is no result of cv2.resize.
SizedImage(obj, h, w) == [obj |-> obj, shape |-> <<h, w>>, scaled_from |-> <<0, 0>>]

\* cv2.resize(img, (w, h), interpolation=cv2.INTER_AREA): a new array of height
\* h and width w.
cv2_resize(img, w, h) ==
    [obj |-> img.obj, shape |-> <<h, w>>, scaled_from |-> img.shape]

Max(a, b) == IF a >= b THEN a ELSE b

\* _ensure_same_size that hands cv2.resize the size as (h, w).
_ensure_same_size_transposed(img1, img2) ==
    IF img1.shape = img2.shape THEN <<img1, img2>>
    ELSE LET h == Max(img1.shape[1], img2.shape[1])
             w == Max(img1.shape[2], img2.shape[2])
         IN  <<cv2_resize(img1, h, w), cv2_resize(img2, h, w)>>

_ensure_same_size(img1, img2) ==
    IF img1.shape = img2.shape THEN <<img1, img2>>
    ELSE LET h == Max(img1.shape[1], img2.shape[1])
             w == Max(img1.shape[2], img2.shape[2])
         IN  <<cv2_resize(img1, w, h), cv2_resize(img2, w, h)>>

\* The diff overlay of compare_images, pixel by pixel.  m is the value of the
\* SSIM map at the pixel, in thousandths (-1000..1000).
\* ((1 - ssim_map) * 255).astype(np.uint8): the cast drops the fraction; for a
\* value above 255 (m < 0) the cast of a float to uint8 is undefined in C, and
\* builds give the value modulo 256 ("wrap") or 255 ("saturate").
Casts == {"wrap", "saturate"}

diff_mask(m, cast) ==
    LET t == ((1000 - m) * 255) \div 1000
    IN  IF t <= 255 THEN t
        ELSE IF cast = "wrap" THEN t % 256
        ELSE 255

\* The sensitivity threshold of the flagged-pixel mask.
DiffSensitivity == 15

\* cv2.threshold(diff_mask, 15, 255, cv2.THRESH_BINARY)
thresh_mask(d) == IF d > DiffSensitivity THEN 255 ELSE 0

\* cv2.addWeighted(ref, 0.6, overlay, 0.4, 0) on one channel value.
addWeighted(a, b) == (6 * a + 4 * b + 5) \div 10

\* The pixel of the overlay for a reference pixel <<r, g, b>>.
overlay_pixel(ref_px, m, cast) ==
    LET d == diff_mask(m, cast)
        flagged == thresh_mask(d) > 0
        overlay == IF flagged THEN <<255, 0, 0>> ELSE ref_px
    IN  [diff |-> d, flagged |-> flagged,
         blended |-> [c \in 1..3 |-> addWeighted(ref_px[c], overlay[c])]]

\* compare_images that passes a page only above the threshold.
compare_images_strict(ref_img, test_img, threshold) ==
    LET score == ssim(ref_img, test_img)
    IN  [page |-> 0,
         ssim_score |-> score,
         passed |-> (score > threshold),
         diff_overlay |-> [base |-> ref_img, cand |-> test_img]]

\* compare_images that compares the score, a fraction, with the percentage.
compare_images_unscaled(ref_img, test_img, threshold) ==
    LET score == ssim(ref_img, test_img)
    IN  [page |-> 0,
         ssim_score |-> score,
         passed |-> (score \div 100 >= threshold),
         diff_overlay |-> [base |-> ref_img, cand |-> test_img]]

compare_images(ref_img, test_img, threshold) ==
    LET score == ssim(ref_img, test_img)
    IN  [page |-> 0,
         ssim_score |-> score,
         passed |-> (score >= threshold),
         diff_overlay |-> [base |-> ref_img, cand |-> test_img]]

\* compare_page_lists that leaves the loop index as the page number.
compare_page_lists_0based(ref_images, test_images, threshold) ==
    LET pages_to_compare == Min(Len(ref_images), Len(test_images))
    IN  [i \in 1..pages_to_compare |->
            [compare_images(ref_images[i], test_images[i], threshold)
                EXCEPT !.page = i - 1]]

\* compare_page_lists that reports the pages beyond the shorter list as failed.
compare_page_lists_reporting_extra(ref_images, test_images, threshold) ==
    LET pages_to_compare == Min(Len(ref_images), Len(test_images))
        longer == IF Len(ref_images) > Len(test_images)
                      THEN Len(ref_images) ELSE Len(test_images)
    IN  [i \in 1..longer |->
            IF i <= pages_to_compare
                THEN [compare_images(ref_images[i], test_images[i], threshold)
                          EXCEPT !.page = i]
                ELSE [page |-> i, ssim_score |-> 0, passed |-> FALSE,
                      diff_overlay |-> "None"]]

compare_page_lists(ref_images, test_images, threshold) ==
    LET pages_to_compare == Min(Len(ref_images), Len(test_images))
    IN  [i \in 1..pages_to_compare |->
            [compare_images(ref_images[i], test_images[i], threshold)
                EXCEPT !.page = i]]

\* ComparisonResult(...) with the dataclass defaults.
ComparisonResult(test_name, ref_name, pages, ref_page_count, test_page_count, status, error_message) ==
    [test_name |-> test_name, ref_name |-> ref_name, pages |-> pages,
     ref_page_count |-> ref_page_count, test_page_count |-> test_page_count,
     status |-> status, error_message |-> error_message]

\* PageResult.similarity_pct, in thousandths of a percent.
similarity_pct(p) == p.ssim_score * 100

\* sum(p.similarity_pct for p in pages)
RECURSIVE SumPct(_)
SumPct(pages) ==
    IF pages = <<>> THEN 0 ELSE similarity_pct(Head(pages)) + SumPct(Tail(pages))

\* overall_ssim that is 0 for every result that is not "completed".
overall_ssim_completed_only(cr) ==
    IF cr.pages = <<>> \/ cr.status # "completed" THEN [num |-> 0, den |-> 1]
    ELSE [num |-> SumPct(cr.pages), den |-> Len(cr.pages)]

\* ComparisonResult.overall_ssim, as the fraction num / den of thousandths of a
\* percent.
overall_ssim(cr) ==
    IF cr.pages = <<>> THEN [num |-> 0, den |-> 1]
    ELSE [num |-> SumPct(cr.pages), den |-> Len(cr.pages)]

\* passed without the status test.
passed_ignoring_status(cr) ==
    /\ \A i \in 1..Len(cr.pages) : cr.pages[i].passed
    /\ cr.ref_page_count = cr.test_page_count

\* ComparisonResult.passed
passed(cr) ==
    /\ \A i \in 1..Len(cr.pages) : cr.pages[i].passed
    /\ cr.ref_page_count = cr.test_page_count
    /\ cr.status = "completed"

\* ------------------------------------------------------- reference directory
\* The directory is a function from the names of the files in it to the images
\* they hold.
NoFiles == <<>>

_reference_images_for(dir, stem) ==
    SortedNames({name \in DOMAIN dir : GlobMatches(stem, name)})

\* save_image(img, ref_dir / f"{stem}_page_{i}.png") for i = 1..upto
SavePages(dir, stem, images, upto) ==
    LET written == {PageFile(stem, i) : i \in 1..upto}
    IN  [name \in DOMAIN dir \cup written |->
            IF name \in written
                THEN images[CHOOSE i \in 1..upto : PageFile(stem, i) = name]
                ELSE dir[name]]

\* The unlink loop with the comparison off by one.
RemoveExceeding_off_by_one(dir, stem, count) ==
    LET old == {name \in DOMAIN dir :
                   GlobMatches(stem, name) /\ PageNumOf(name) > count + 1}
    IN  [name \in DOMAIN dir \ old |-> dir[name]]

\* The unlink loop of the approval: references that exceed the new page count.
RemoveExceeding(dir, stem, count) ==
    LET old == {name \in DOMAIN dir :
                   GlobMatches(stem, name) /\ PageNumOf(name) > count}
    IN  [name \in DOMAIN dir \ old |-> dir[name]]

\* A file of the reference directory that is not a readable PNG (truncated,
\* overwritten by another tool): Image.open raises on it.
Unreadable == <<"unreadable", 0, 0>>

load_reference_image(dir, name) == dir[name]

\* _save_diff_images: the diff files written for a result.
DiffFile(stem, page) == PageFile(stem, page) \o <<"_diff">>

\* _save_diff_images without the test on passed: a file for every page.
_save_diff_images_all_pages(result) ==
    {DiffFile(result.test_name, result.pages[i].page) :
        i \in 1..Len(result.pages)}

_save_diff_images(result) ==
    {DiffFile(result.test_name, result.pages[i].page) :
        i \in {j \in 1..Len(result.pages) : ~result.pages[j].passed}}

\* No ComparisonResult: the call has not been made, or an exception ended it.
NoResult == ComparisonResult("none", <<>>, <<>>, 0, 0, "none", "none")

\* compare_one up to the interactive step: the result record together with the
\* locals the later steps and the properties read.  err is the exception that
\* left compare_one instead of a result, or "none"; doc is the test PDF as the
\* call found it.
CompareFrame(stem, doc, dir, threshold) ==
    LET ref_paths == _reference_images_for(dir, stem)
        rendered == render_pdf(stem, doc)
        ref_images == [i \in 1..Len(ref_paths) |->
                          load_reference_image(dir, ref_paths[i])]
    IN  IF ref_paths = <<>> THEN
            [stem |-> stem, ref_paths |-> ref_paths, rendered |-> FALSE,
             test_images |-> <<>>, err |-> "none", doc |-> doc,
             result |-> ComparisonResult(stem, <<>>, <<>>, 0, 0,
                            "missing_reference", "No reference images found")]
        ELSE IF ~rendered.ok THEN
            [stem |-> stem, ref_paths |-> ref_paths, rendered |-> TRUE,
             test_images |-> <<>>, err |-> "none", doc |-> doc,
             result |-> ComparisonResult(stem, ref_paths[1], <<>>,
                            Len(ref_paths), 0, "error", rendered.err)]
        ELSE IF \E i \in 1..Len(ref_images) : ref_images[i] = Unreadable THEN
            [stem |-> stem, ref_paths |-> ref_paths, rendered |-> TRUE,
             test_images |-> rendered.images, doc |-> doc,
             err |-> "cannot identify image file", result |-> NoResult]
        ELSE
            [stem |-> stem, ref_paths |-> ref_paths, rendered |-> TRUE,
             test_images |-> rendered.images, err |-> "none", doc |-> doc,
             result |-> ComparisonResult(stem,
                            StemToks(stem) \o <<"_page_", "*">>,
                            compare_page_lists(ref_images, rendered.images,
                                               threshold),
                            Len(ref_images), Len(rendered.images),
                            "completed", "none")]

\* ---------------------------------------------------------- reviewer response
Lower(c) ==
    CASE c = "Y" -> "y" [] c = "E" -> "e" [] c = "S" -> "s" [] c = "K" -> "k"
      [] c = "I" -> "i" [] c = "P" -> "p" [] c = "N" -> "n" [] OTHER -> c

RECURSIVE LStrip(_)
LStrip(s) == IF s # <<>> /\ Head(s) = " " THEN LStrip(Tail(s)) ELSE s

RECURSIVE RStrip(_)
RStrip(s) ==
    IF s # <<>> /\ s[Len(s)] = " " THEN RStrip(SubSeq(s, 1, Len(s) - 1)) ELSE s

\* The response lower-cased but not stripped.
Normalize_no_strip(raw) == [i \in 1..Len(raw) |-> Lower(raw[i])]

\* input(...).lower().strip()
Normalize(raw) == RStrip(LStrip([i \in 1..Len(raw) |-> Lower(raw[i])]))

\* A prompt whose default is to approve: only "n" rejects.
Decision_default_yes(response) ==
    IF response \in {<<"s">>, <<"s", "k", "i", "p">>} THEN "Skipped"
    ELSE IF response = <<"n">> THEN "Rejected"
    ELSE "Approved"

\* The branch of _handle_interactive a normalized response takes.
Decision(response) ==
    IF response \in {<<"y">>, <<"y", "e", "s">>} THEN "Approved"
    ELSE IF response \in {<<"s">>, <<"s", "k", "i", "p">>} THEN "Skipped"
    ELSE "Rejected"

\* What a reviewer may type at the prompt: "y" and " Yes " approve, "S" and
\* "skip " defer, "", "ye" and "n" are anything else.
ApprovingResponses == {<<"y">>, <<" ", "Y", "e", "s", " ">>}
SkippingResponses == {<<"S">>, <<"s", "k", "i", "p", " ">>}
OtherResponses == {<<>>, <<"y", "e">>, <<"n">>}
Responses == ApprovingResponses \cup SkippingResponses \cup OtherResponses


\* -------------------------------------------------------------------- state
VARIABLES
    docs,      \* the test directory: stem -> document
    store,     \* the reference directory (the baseline store)
    outdir,    \* the output directory: names of the diff images in it
    pc,        \* "idle" | "loop" (compare_directory between two documents)
               \*        | "prompt" (_handle_interactive blocked in input())
    run,       \* locals of the compare_directory call in progress, or last made
    cur,       \* locals of the last compare_one call
    wf,        \* the approval workflow of the last compare_one call
    exc,       \* the exception that ended the last command, or "none"
    edited,    \* the test directory has changed since the initial state
    raced,     \* a test PDF has been replaced while a prompt was waiting
    uin,       \* argument record of a directly called function
    uout       \* its return value

vars == <<docs, store, outdir, pc, run, cur, wf, exc, edited, raced, uin, uout>>

Thresholds == {DEFAULT_THRESHOLD}

NoFrame ==
    [stem |-> "none", ref_paths |-> <<>>, rendered |-> FALSE,
     test_images |-> <<>>, err |-> "none", doc |-> Absent, result |-> NoResult]

\* wf.state: "none" (not entered), "exact" (short-circuit), "Reviewing",
\* "Approved", "Rejected", "Skipped", "Failed" (left by an exception).
\* store0 and out0 are the two directories as the workflow found them; raced
\* records that the test PDF was replaced while the prompt was waiting.
NoWorkflow ==
    [state |-> "none", prompted |-> FALSE, raw |-> <<>>, diffs |-> {},
     store0 |-> NoFiles, out0 |-> {}, raced |-> FALSE]

\* store0 is the reference directory as compare_directory found it; approved
\* records that the reviewer has typed one of ApprovingResponses in this run;
\* exit_code is what main returned for the compare command, -1 until it has;
\* approved_stems are the documents whose approval has completed in this run,
\* prev_approved those of the compare command right before this one.
NoRun ==
    [started |-> FALSE, queue |-> <<>>, results |-> <<>>, interactive |-> FALSE,
     threshold |-> DEFAULT_THRESHOLD, store0 |-> NoFiles, approved |-> FALSE,
     exit_code |-> -1, approved_stems |-> {}, prev_approved |-> {}]

\* An exit code that is 1 only when no result passed.
ExitCode_any_passed(results) ==
    IF results = <<>> \/ \E i \in 1..Len(results) : passed(results[i])
        THEN 0 ELSE 1

\* The exit code of main for the compare command: 0 if passed == total else 1.
ExitCode(results) ==
    LET npassed == Cardinality({i \in 1..Len(results) : passed(results[i])})
        total == Len(results)
    IN  IF npassed = total THEN 0 ELSE 1

\* A review that marks the result of an approved document as passing.
ResultAfterReview_approved_passes(result, decision) ==
    IF decision = "Approved"
        THEN [result EXCEPT
                 !.pages = [i \in 1..Len(result.pages) |->
                               [result.pages[i] EXCEPT !.passed = TRUE]],
                 !.ref_page_count = result.test_page_count]
        ELSE result

\* The record compare_one returns after _handle_interactive: the one it built
\* before, of which the review assigns no field.
ResultAfterReview(result, decision) == result

\* The PDFs in descending order of name.
SortedPdfs_descending(dir) ==
    LET names == SortedNames({StemToks(stem) :
                     stem \in {x \in Stems : dir[x].kind # "absent"}})
    IN  [i \in 1..Len(names) |->
            CHOOSE stem \in Stems : StemToks(stem) = names[Len(names) + 1 - i]]

\* sorted(test_dir.glob("*.pdf")), as stems
SortedPdfs(dir) ==
    LET names == SortedNames({StemToks(stem) :
                     stem \in {x \in Stems : dir[x].kind # "absent"}})
    IN  [i \in 1..Len(names) |-> CHOOSE stem \in Stems : StemToks(stem) = names[i]]

NoCall == [op |-> "none"]
NoReturn == [done |-> FALSE, val |-> FALSE]

Init ==
    /\ docs \in [Stems -> UNION {DocsOf(stem) : stem \in Stems}]
    /\ \A stem \in Stems : docs[stem] \in DocsOf(stem)
    /\ store = NoFiles
    /\ outdir = {}
    /\ pc = "idle"
    /\ run = NoRun
    /\ cur = NoFrame
    /\ wf = NoWorkflow
    /\ exc = "none"
    /\ edited = FALSE
    /\ raced = FALSE
    /\ uin = NoCall
    /\ uout = NoReturn

\* ------------------------------------------------------------------ actions
\* Between two commands the user replaces, adds or removes a PDF.  The process
\* of the last command is gone, and its locals with it.
ReplaceDoc(stem, doc) ==
    /\ pc = "idle"
    /\ ~edited
    /\ doc # docs[stem]
    /\ docs' = [docs EXCEPT ![stem] = doc]
    /\ edited' = TRUE
    /\ raced' = raced
    /\ run' = NoRun
    /\ cur' = NoFrame
    /\ wf' = NoWorkflow
    /\ exc' = "none"
    /\ UNCHANGED <<store, outdir, pc, uin, uout>>

\* Between two commands a file of the reference directory is damaged: the
\* directory is owned by the user, and a truncated or overwritten PNG stays in
\* it under its name.  The damaged file is the first page of a document.
DamageReference(name) ==
    /\ pc = "idle"
    /\ ~edited
    /\ name \in DOMAIN store
    /\ PageNumOf(name) = 1
    /\ store[name] # Unreadable
    /\ store' = [store EXCEPT ![name] = Unreadable]
    /\ edited' = TRUE
    /\ raced' = raced
    /\ run' = NoRun
    /\ cur' = NoFrame
    /\ wf' = NoWorkflow
    /\ exc' = "none"
    /\ UNCHANGED <<docs, outdir, pc, uin, uout>>

\* The loop of init_references over the sorted PDFs: the directory it leaves and
\* the exception that ended it, if any.
RECURSIVE InitLoop(_, _, _)
InitLoop(dir, pdfs, d) ==
    IF pdfs = <<>> THEN [dir |-> dir, err |-> "none"]
    ELSE LET stem == Head(pdfs)
             rendered == render_pdf(stem, d[stem])
         IN  IF ~rendered.ok THEN [dir |-> dir, err |-> rendered.err]
             ELSE InitLoop(SavePages(dir, stem, rendered.images,
                                     Len(rendered.images)),
                           Tail(pdfs), d)

init_references ==
    /\ pc = "idle"
    /\ ~raced
    /\ LET done == InitLoop(store, SortedPdfs(docs), docs)
       IN  /\ store' = done.dir
           /\ exc' = done.err
    /\ run' = NoRun
    /\ cur' = NoFrame
    /\ wf' = NoWorkflow
    /\ UNCHANGED <<docs, outdir, pc, edited, raced, uin, uout>>

\* compare_directory up to its loop.
compare_directory(threshold, interactive) ==
    /\ pc = "idle"
    /\ ~raced
    /\ LET test_pdfs == SortedPdfs(docs)
       IN  /\ run' = [started |-> TRUE, queue |-> test_pdfs, results |-> <<>>,
                      interactive |-> interactive, threshold |-> threshold,
                      store0 |-> store, approved |-> FALSE,
                      exit_code |-> IF test_pdfs = <<>> THEN ExitCode(<<>>)
                                    ELSE -1,
                      approved_stems |-> {},
                      prev_approved |-> run.approved_stems]
           /\ pc' = IF test_pdfs = <<>> THEN "idle" ELSE "loop"
    /\ exc' = "none"
    /\ cur' = NoFrame
    /\ wf' = NoWorkflow
    /\ UNCHANGED <<docs, store, outdir, edited, raced, uin, uout>>

\* The rest of a loop iteration of compare_directory once compare_one has
\* returned `result`: append it and save its diff images; after the last
\* iteration main returns its exit code.
EndIteration(result, out) ==
    /\ run' = [run EXCEPT !.results = Append(@, result), !.queue = Tail(@),
                          !.exit_code = IF Tail(run.queue) = <<>>
                                            THEN ExitCode(Append(run.results, result))
                                            ELSE @]
    /\ outdir' = out \cup _save_diff_images(result)
    /\ pc' = IF Tail(run.queue) = <<>> THEN "idle" ELSE "loop"

\* The early return taken on the page verdicts alone.
ExactMatch_pages_only(result) ==
    {i \in 1..Len(result.pages) : ~result.pages[i].passed} = {}

\* The early return of _handle_interactive.
ExactMatch(result) ==
    LET failed_pages == {i \in 1..Len(result.pages) : ~result.pages[i].passed}
    IN  failed_pages = {} /\ passed(result)

\* A compare_one that reviews whatever result it has when asked to.
Entered_any_status(interactive, result) == interactive

\* compare_one reaches _handle_interactive: not past one of its two early
\* returns, and only if interactive.
Entered(interactive, result) ==
    interactive /\ result.status \notin {"missing_reference", "error"}

\* One iteration of the loop: compare_one on the next PDF, and
\* _handle_interactive up to its prompt.
compare_one ==
    /\ pc = "loop"
    /\ LET stem == Head(run.queue)
           frame == CompareFrame(stem, docs[stem], store, run.threshold)
           result == frame.result
           entered == Entered(run.interactive, result)
       IN  /\ cur' = frame
           /\ exc' = frame.err
           /\ IF frame.err # "none" THEN
                  /\ wf' = NoWorkflow
                  /\ pc' = "idle"
                  /\ UNCHANGED <<run, outdir>>
              ELSE IF ~entered THEN
                  /\ wf' = NoWorkflow
                  /\ EndIteration(result, outdir)
              ELSE IF ExactMatch(result) THEN
                  /\ wf' = [NoWorkflow EXCEPT !.state = "exact", !.store0 = store,
                                               !.out0 = outdir]
                  /\ EndIteration(result, outdir)
              ELSE
                  /\ wf' = [state |-> "Reviewing", prompted |-> TRUE,
                            raw |-> <<>>, diffs |-> _save_diff_images(result),
                            store0 |-> store, out0 |-> outdir,
                            raced |-> FALSE]
                  /\ outdir' = outdir \cup _save_diff_images(result)
                  /\ pc' = "prompt"
                  /\ run' = run
    /\ UNCHANGED <<docs, store, edited, raced, uin, uout>>

\* While _handle_interactive is blocked in input(), another process (a new
\* export of the document: the same number of pages, the next version) replaces
\* the test PDF under its name.  This happens at most once, and the command
\* during which it happens is the last one that is followed.
ReplaceDocAtPrompt(doc) ==
    /\ pc = "prompt"
    /\ ~raced
    /\ doc \in DocsOf(cur.stem)
    /\ doc.kind = "pdf"
    /\ doc.n = docs[cur.stem].n
    /\ doc.v = (docs[cur.stem].v % MaxVer) + 1
    /\ docs' = [docs EXCEPT ![cur.stem] = doc]
    /\ wf' = [wf EXCEPT !.raced = TRUE]
    /\ raced' = TRUE
    /\ edited' = TRUE
    /\ UNCHANGED <<store, outdir, pc, run, cur, exc, uin, uout>>

\* The reviewer answers the prompt: the rest of _handle_interactive, and of the
\* loop iteration when it returns.  fail_at = k > 0 makes the k-th save_image
\* of the approval raise (reference directory not writable, disk full).
respond(raw, fail_at) ==
    /\ pc = "prompt"
    /\ LET response == Normalize(raw)
           decision == Decision(response)
           stem == cur.stem
           rendered == render_pdf(stem, docs[stem])
           count == Len(rendered.images)
           result == ResultAfterReview(cur.result, decision)
       IN  IF decision # "Approved" THEN
               /\ fail_at = 0
               /\ wf' = [wf EXCEPT !.state = decision, !.raw = raw]
               /\ run' = [run EXCEPT
                             !.approved = @ \/ raw \in ApprovingResponses,
                             !.results = Append(@, result),
                             !.queue = Tail(@),
                             !.exit_code =
                                 IF Tail(run.queue) = <<>>
                                     THEN ExitCode(Append(run.results, result))
                                     ELSE @]
               /\ outdir' = outdir \cup _save_diff_images(result)
               /\ pc' = IF Tail(run.queue) = <<>> THEN "idle" ELSE "loop"
               /\ UNCHANGED <<store, exc>>
           ELSE IF ~rendered.ok THEN
               /\ fail_at = 0
               /\ wf' = [wf EXCEPT !.state = "Failed", !.raw = raw]
               /\ run' = [run EXCEPT !.approved = @ \/ raw \in ApprovingResponses]
               /\ exc' = rendered.err
               /\ pc' = "idle"
               /\ UNCHANGED <<store, outdir>>
           ELSE IF fail_at = 0 THEN
               /\ store' = RemoveExceeding(
                               SavePages(store, stem, rendered.images, count),
                               stem, count)
               /\ wf' = [wf EXCEPT !.state = "Approved", !.raw = raw]
               /\ run' = [run EXCEPT
                             !.approved = @ \/ raw \in ApprovingResponses,
                             !.approved_stems = @ \cup {stem},
                             !.results = Append(@, result),
                             !.queue = Tail(@),
                             !.exit_code =
                                 IF Tail(run.queue) = <<>>
                                     THEN ExitCode(Append(run.results, result))
                                     ELSE @]
               /\ outdir' = outdir \cup _save_diff_images(result)
               /\ pc' = IF Tail(run.queue) = <<>> THEN "idle" ELSE "loop"
               /\ exc' = exc
           ELSE
               /\ fail_at <= count
               /\ store' = SavePages(store, stem, rendered.images, fail_at - 1)
               /\ wf' = [wf EXCEPT !.state = "Failed", !.raw = raw]
               /\ run' = [run EXCEPT !.approved = @ \/ raw \in ApprovingResponses]
               /\ exc' = "save_image failed"
               /\ pc' = "idle"
               /\ outdir' = outdir
    /\ UNCHANGED <<docs, cur, edited, raced, uin, uout>>

Next ==
    \/ \E stem \in Stems : \E doc \in DocsOf(stem) : ReplaceDoc(stem, doc)
    \/ \E name \in DOMAIN store : DamageReference(name)
    \/ init_references
    \/ \E threshold \in Thresholds, interactive \in BOOLEAN :
           compare_directory(threshold, interactive)
    \/ compare_one
    \/ \E doc \in UNION {DocsOf(stem) : stem \in Stems} : ReplaceDocAtPrompt(doc)
    \/ \E raw \in Responses, fail_at \in 0..MaxFailAt : respond(raw, fail_at)

Spec == Init /\ [][Next]_vars

\* ------------------------------------------------- functions called directly
\* The result records and the page aligner are also called on their own (the
\* unit tests do): SpecUnit draws an argument record and applies the function.
UnitImages == {<<"S", 1, 1>>, <<"S", 2, 1>>, <<"S_page_1", 1, 1>>}

UnitPageResults ==
    {[page |-> 0, ssim_score |-> score, passed |-> flag, diff_overlay |-> "None"] :
        score \in {400, 1000}, flag \in BOOLEAN}

UnitResults ==
    {ComparisonResult("t", "r", pages, ref_count, test_count, status, "none") :
        pages \in SeqsUpTo(UnitPageResults, MaxUnitLen),
        ref_count \in 0..MaxUnitLen, test_count \in 0..MaxUnitLen,
        status \in {"completed", "error", "missing_reference"}}

\* Reference directories compare_one is called on: empty, one page, two pages,
\* two pages of which the first is not a readable PNG.
UnitDirs ==
    LET one == SavePages(NoFiles, "S", <<<<"S", 1, 1>>>>, 1)
        two == SavePages(NoFiles, "S", <<<<"S", 1, 1>>, <<"S", 1, 2>>>>, 2)
    IN  {NoFiles, one, two, [two EXCEPT ![PageFile("S", 1)] = Unreadable]}

\* Results overall_ssim is read on: pages that scored 0.80, 0.90 or 1.00.
UnitScoredResults ==
    {ComparisonResult("t", "r", pages, Len(pages), Len(pages), status, "none") :
        pages \in SeqsUpTo({[page |-> 0, ssim_score |-> score, passed |-> TRUE,
                             diff_overlay |-> "None"] : score \in {800, 900, 1000}},
                           MaxUnitLen),
        status \in {"completed", "error", "missing_reference"}}

\* Shapes _ensure_same_size is called with: heights 50 and 100, widths 60 and
\* 80.
UnitShapes == {<<h, w>> : h \in {50, 100}, w \in {60, 80}}

\* Values of the SSIM map and reference pixels the overlay is computed for.
UnitMapValues == {1000, 941, 939, 500, 0, -3, -50, -100, -1000}
UnitPixels == {<<0, 0, 0>>, <<255, 255, 255>>, <<128, 64, 200>>}

\* Thresholds compare_images is called with: the default, 50.0 and 100.0.
UnitThresholds == {DEFAULT_THRESHOLD, 500, 1000}

UnitCalls ==
    {[op |-> "passed", cr |-> cr] : cr \in UnitResults}
        \cup {[op |-> "overall_ssim", cr |-> cr] : cr \in UnitScoredResults}
        \cup {[op |-> "overlay_pixel", ref_px |-> px, m |-> m, cast |-> cast] :
                 px \in UnitPixels, m \in UnitMapValues, cast \in Casts}
        \cup {[op |-> "_ensure_same_size",
               img1 |-> SizedImage("a", s1[1], s1[2]),
               img2 |-> SizedImage("b", s2[1], s2[2])] :
                 s1 \in UnitShapes, s2 \in UnitShapes}
        \cup {[op |-> "compare_images", ref_img |-> ref, test_img |-> test,
               threshold |-> threshold] :
                 ref \in PixelImages, test \in PixelImages,
                 threshold \in UnitThresholds}
        \cup {[op |-> "compare_one", stem |-> "S", doc |-> doc, ref_dir |-> dir,
               threshold |-> DEFAULT_THRESHOLD] :
                 doc \in DocsOf("S"), dir \in UnitDirs}
        \cup {[op |-> "compare_page_lists", ref_images |-> refs,
               test_images |-> tests, threshold |-> threshold] :
                 refs \in SeqsUpTo(UnitImages, MaxUnitLen),
                 tests \in SeqsUpTo(UnitImages, MaxUnitLen),
                 threshold \in UnitThresholds}

InitUnit ==
    /\ docs = [stem \in Stems |-> Absent]
    /\ store = NoFiles
    /\ outdir = {}
    /\ pc = "unit"
    /\ run = NoRun
    /\ cur = NoFrame
    /\ wf = NoWorkflow
    /\ exc = "none"
    /\ edited = FALSE
    /\ raced = FALSE
    /\ uin \in UnitCalls
    /\ uout = NoReturn

CallPassed ==
    /\ pc = "unit"
    /\ ~uout.done
    /\ uin.op = "passed"
    /\ uout' = [done |-> TRUE, val |-> passed(uin.cr)]
    /\ UNCHANGED <<docs, store, outdir, pc, run, cur, wf, exc, edited, raced, uin>>

CallComparePageLists ==
    /\ pc = "unit"
    /\ ~uout.done
    /\ uin.op = "compare_page_lists"
    /\ uout' = [done |-> TRUE,
                val |-> compare_page_lists(uin.ref_images, uin.test_images,
                                           uin.threshold)]
    /\ UNCHANGED <<docs, store, outdir, pc, run, cur, wf, exc, edited, raced, uin>>

\* compare_one(test_pdf, ref_dir, output_dir) without the interactive step.
CallCompareOne ==
    /\ pc = "unit"
    /\ ~uout.done
    /\ uin.op = "compare_one"
    /\ uout' = [done |-> TRUE,
                val |-> CompareFrame(uin.stem, uin.doc, uin.ref_dir,
                                     uin.threshold)]
    /\ UNCHANGED <<docs, store, outdir, pc, run, cur, wf, exc, edited, raced, uin>>

CallCompareImages ==
    /\ pc = "unit"
    /\ ~uout.done
    /\ uin.op = "compare_images"
    /\ uout' = [done |-> TRUE,
                val |-> compare_images(uin.ref_img, uin.test_img, uin.threshold)]
    /\ UNCHANGED <<docs, store, outdir, pc, run, cur, wf, exc, edited, raced, uin>>

CallOverallSsim ==
    /\ pc = "unit"
    /\ ~uout.done
    /\ uin.op = "overall_ssim"
    /\ uout' = [done |-> TRUE, val |-> overall_ssim(uin.cr)]
    /\ UNCHANGED <<docs, store, outdir, pc, run, cur, wf, exc, edited, raced, uin>>

CallEnsureSameSize ==
    /\ pc = "unit"
    /\ ~uout.done
    /\ uin.op = "_ensure_same_size"
    /\ uout' = [done |-> TRUE, val |-> _ensure_same_size(uin.img1, uin.img2)]
    /\ UNCHANGED <<docs, store, outdir, pc, run, cur, wf, exc, edited, raced, uin>>

\* The overlay part of compare_images on one pixel.
CallOverlayPixel ==
    /\ pc = "unit"
    /\ ~uout.done
    /\ uin.op = "overlay_pixel"
    /\ uout' = [done |-> TRUE, val |-> overlay_pixel(uin.ref_px, uin.m, uin.cast)]
    /\ UNCHANGED <<docs, store, outdir, pc, run, cur, wf, exc, edited, raced, uin>>

NextUnit ==
    \/ CallPassed
    \/ CallOverlayPixel
    \/ CallEnsureSameSize
    \/ CallOverallSsim
    \/ CallComparePageLists
    \/ CallCompareOne
    \/ CallCompareImages

SpecUnit == InitUnit /\ [][NextUnit]_vars

\* ------------------------------------------------------------- properties
\* C1: passed of a ComparisonResult is true exactly when its status is
\* "completed", its two page counts are equal and no page of it has failed; a
\* count mismatch or another status makes it false whatever the pages hold.
C1_PassedIffCompletedCountsPages ==
    (uout.done /\ uin.op = "passed") =>
        LET cr == uin.cr
            failing == {p \in Range(cr.pages) : p.passed = FALSE}
        IN  /\ uout.val = TRUE <=>
                   (cr.status = "completed"
                       /\ cr.ref_page_count - cr.test_page_count = 0
                       /\ failing = {})
            /\ cr.status # "completed" => uout.val = FALSE
            /\ cr.ref_page_count # cr.test_page_count => uout.val = FALSE

\* A result whose pages all pass and whose status is "completed" fails on the
\* page counts alone.
C1_Witness ==
    /\ uout.done /\ uin.op = "passed"
    /\ uin.cr.status = "completed"
    /\ uin.cr.pages # <<>>
    /\ \A p \in Range(uin.cr.pages) : p.passed
    /\ uin.cr.ref_page_count # uin.cr.test_page_count
    /\ uout.val = FALSE

\* C7: compare_page_lists returns one PageResult per position of the shorter
\* list, the i-th numbered i and comparing the i-th reference image with the
\* i-th test image; nothing for the pages beyond, nothing for an empty list.
C7_AlignerPairsByPosition ==
    (uout.done /\ uin.op = "compare_page_lists") =>
        LET refs == uin.ref_images
            tests == uin.test_images
            shorter == IF Len(refs) < Len(tests) THEN Len(refs) ELSE Len(tests)
        IN  /\ DOMAIN uout.val = 1..shorter
            /\ (refs = <<>> \/ tests = <<>>) => uout.val = <<>>
            /\ \A i \in 1..shorter :
                   /\ uout.val[i].page = i
                   /\ uout.val[i].ssim_score = ssim(refs[i], tests[i])
                   /\ uout.val[i].passed = (ssim(refs[i], tests[i]) >= uin.threshold)
                   /\ uout.val[i].diff_overlay = [base |-> refs[i], cand |-> tests[i]]

\* Lists of different lengths whose pages differ from position to position.
C7_Witness ==
    /\ uout.done /\ uin.op = "compare_page_lists"
    /\ Len(uin.ref_images) = 2 /\ Len(uin.test_images) = 1
    /\ uin.ref_images[1] # uin.ref_images[2]
    /\ Len(uout.val) = 1
    /\ uout.val[1].page = 1

\* The baseline pages of a stem in a directory: the indices k whose file
\* <stem>_page_<k>.png is there.
PagesOf(dir, stem) ==
    {PageNumOf(name) :
        name \in {x \in DOMAIN dir : x = PageFile(stem, PageNumOf(x))}}

\* The files the lookup of a stem finds are all pages of that stem.
OwnListing(dir, stem) ==
    \A name \in DOMAIN dir :
        GlobMatches(stem, name) => name = PageFile(stem, PageNumOf(name))

\* C2: when an approval returns, the baseline of the document is exactly the
\* pages 1..N of the candidate, N its page count, each holding the re-rendered
\* page, and every page beyond N that was there before is gone.
C2_ApprovedBaselineIsCandidate ==
    wf.state = "Approved" =>
        LET stem == cur.stem
            fresh == render_pdf(stem, docs[stem]).images
            count == Len(fresh)
        IN  /\ PagesOf(store, stem) = 1..count
            /\ \A k \in 1..count : store[PageFile(stem, k)] = fresh[k]
            /\ \A k \in PagesOf(wf.store0, stem) :
                   k > count => PageFile(stem, k) \notin DOMAIN store

\* An approval that shrinks the baseline and changes the content of page 1.
C2_Witness ==
    /\ wf.state = "Approved"
    /\ \E k \in PagesOf(wf.store0, cur.stem) : k > cur.result.test_page_count
    /\ store[PageFile(cur.stem, 1)] # wf.store0[PageFile(cur.stem, 1)]

\* C3: "y" and "yes", trimmed and lower-cased, are the only responses that
\* approve; "s" and "skip" skip; anything else, the empty response included,
\* rejects; and a rejected or skipped review leaves the baseline as it was.
C3_OnlyYesApproves ==
    wf.state \in {"Approved", "Failed", "Skipped", "Rejected"} =>
        /\ wf.state \in {"Approved", "Failed"} <=> wf.raw \in ApprovingResponses
        /\ wf.state = "Skipped" <=> wf.raw \in SkippingResponses
        /\ wf.state = "Rejected" <=> wf.raw \in OtherResponses
        /\ wf.state \in {"Skipped", "Rejected"} => store = wf.store0

\* The empty response on a failing document with a baseline.
C3_Witness ==
    /\ wf.state = "Rejected"
    /\ wf.raw = <<>>
    /\ ~passed(cur.result)
    /\ store = wf.store0
    /\ store # NoFiles

\* C4: a baseline write that fails during an approval is raised to the caller
\* and leaves the baseline exactly as it was before the approval.  (Stated for
\* a document whose listing held pages of its own only.)
C4_FailedWriteLeavesBaseline ==
    (wf.state = "Failed" /\ OwnListing(wf.store0, cur.stem)) =>
        (exc # "none" /\ store = wf.store0)

\* C5: in a comparison run the baseline changes only inside an approval: a
\* run that is not interactive, or in which no approving response has been
\* read yet, has the baseline it started with.
C5_BaselineChangesOnlyOnApproval ==
    (run.started /\ (~run.interactive \/ ~run.approved)) => store = run.store0

\* An interactive run whose reviewer has deferred a failing document.
C5_Witness ==
    /\ run.started /\ run.interactive /\ ~run.approved
    /\ wf.state = "Skipped"
    /\ ~passed(cur.result)
    /\ store = run.store0
    /\ store # NoFiles

\* C6: an outcome that already passes (no failed page, equal page counts)
\* short-circuits the workflow, and only such an outcome does: no prompt, no
\* diff image, the baseline unchanged.
C6_PassingOutcomeShortCircuits ==
    (run.interactive /\ cur.result.status = "completed") =>
        LET r == cur.result
            passes == /\ r.ref_page_count = r.test_page_count
                      /\ \A p \in Range(r.pages) : p.passed
        IN  /\ passes <=> wf.state = "exact"
            /\ wf.state = "exact" =>
                   /\ ~wf.prompted
                   /\ wf.diffs = {}
                   /\ outdir = wf.out0
                   /\ store = wf.store0

\* A two-digit document that matches its baseline page for page.
C6_Witness ==
    /\ run.interactive
    /\ wf.state = "exact"
    /\ Len(cur.result.pages) >= 2
    /\ ~wf.prompted

\* C8: a "completed" result of compare_one has as many pages as the smaller of
\* its two page counts, which are the number of baseline files found and the
\* number of pages rendered.
C8_PagesAreMinOfCounts ==
    /\ \A r \in Range(run.results) \cup {cur.result} :
           r.status = "completed" =>
               Len(r.pages) = IF r.ref_page_count < r.test_page_count
                                  THEN r.ref_page_count ELSE r.test_page_count
    /\ cur.result.status = "completed" =>
           /\ cur.result.ref_page_count = Len(cur.ref_paths)
           /\ cur.result.test_page_count = cur.doc.n

\* A candidate with fewer pages than its baseline.
C8_Witness ==
    /\ cur.result.status = "completed"
    /\ cur.result.test_page_count < cur.result.ref_page_count
    /\ Len(cur.result.pages) = cur.result.test_page_count
    /\ Len(cur.result.pages) >= 2

\* C9: the baseline pages listed for a stem come in ascending page number, so
\* the i-th of them is <stem>_page_<i>.png, for any number of pages.  (Stated
\* for listings that hold pages of the stem only.)
C9_BaselineListedByPageNumber ==
    (/\ cur.result.status = "completed"
     /\ \A name \in Range(cur.ref_paths) :
            name = PageFile(cur.stem, PageNumOf(name))) =>
        \A i \in 1..Len(cur.ref_paths) : cur.ref_paths[i] = PageFile(cur.stem, i)

\* C10: with no baseline page for its stem, compare_one returns a
\* "missing_reference" result with no pages, not passed, and has not rendered.
C10_MissingBaseline ==
    (cur.stem # "none" /\ PagesOf(store, cur.stem) = {}) =>
        /\ cur.result.status = "missing_reference"
        /\ cur.result.pages = <<>>
        /\ ~passed(cur.result)
        /\ ~cur.rendered

\* C11: when render_pdf fails on the candidate (the file is missing, it cannot
\* be opened, or it has no pages) compare_one returns a result of status
\* "error" with no pages, test_page_count 0, the renderer's message as
\* error_message and passed false; no exception leaves compare_one.
C11_RenderFailureIsErrorResult ==
    (uout.done /\ uin.op = "compare_one"
        /\ \E i \in 1..MaxPages : PageFile(uin.stem, i) \in DOMAIN uin.ref_dir) =>
        LET doc == uin.doc
            cause == IF doc.kind = "absent" THEN "PDF not found"
                     ELSE IF doc.kind = "corrupt" THEN "Failed to open PDF"
                     ELSE IF doc.n = 0 THEN "PDF has no pages"
                     ELSE "none"
            result == uout.val.result
        IN  cause # "none" =>
                /\ uout.val.err = "none"
                /\ result.status = "error"
                /\ result.pages = <<>>
                /\ result.test_page_count = 0
                /\ result.error_message = cause
                /\ ~passed(result)

\* compare_one has returned an error result for a PDF without pages.
C11_Witness ==
    /\ uout.done
    /\ uin.op = "compare_one"
    /\ uin.doc = [kind |-> "pdf", n |-> 0, v |-> 1]
    /\ uin.ref_dir # NoFiles
    /\ uout.val.result.status = "error"
    /\ uout.val.result.error_message = "PDF has no pages"

\* C12: a failure while a baseline page is loaded, the sizes are reconciled or
\* a page pair is scored is reported by compare_one as a result of status
\* "error" with no pages: no exception leaves compare_one.
C12_ComparisonFailureIsErrorResult ==
    (/\ cur.stem # "none"
     /\ cur.test_images # <<>>
     /\ \E i \in 1..Len(cur.ref_paths) :
            /\ cur.ref_paths[i] \in DOMAIN store
            /\ store[cur.ref_paths[i]] = Unreadable) =>
        /\ exc = "none"
        /\ cur.result.status = "error"
        /\ cur.result.pages = <<>>

\* C13: the passed flag of a PageResult equals (ssim_score * 100 >= threshold)
\* for the threshold the caller gave, so a score exactly at the threshold
\* passes; the flag is fixed when compare_images creates the record and is
\* still that value in the record compare_page_lists returns with its page
\* number assigned.
C13_PagePassedIffScoreAtLeastThreshold ==
    /\ (uout.done /\ uin.op = "compare_images") =>
           /\ uout.val.passed <=> uout.val.ssim_score >= uin.threshold
           /\ uout.val.ssim_score = uin.threshold => uout.val.passed
    /\ (uout.done /\ uin.op = "compare_page_lists") =>
           \A i \in 1..Len(uout.val) :
               /\ uout.val[i].page = i
               /\ uout.val[i].passed <=> uout.val[i].ssim_score >= uin.threshold

\* compare_images has scored a pair exactly at the threshold 100.0, and the
\* page passed.
C13_Witness ==
    /\ uout.done
    /\ uin.op = "compare_images"
    /\ uin.threshold = 1000
    /\ uout.val.ssim_score = uin.threshold
    /\ uout.val.passed

\* C14: overall_ssim of a ComparisonResult is the arithmetic mean of
\* ssim_score * 100 over its pages, and 0 when it has no pages, whatever its
\* status; pages scoring 90 % and 80 % give 85 %.
C14_OverallIsMeanOfPagePercentages ==
    (uout.done /\ uin.op = "overall_ssim") =>
        LET pages == uin.cr.pages
            mean == uout.val
            \* the deviations of the page percentages from the mean, times den
            deviation == [i \in 1..Len(pages) |->
                             pages[i].ssim_score * 100 * mean.den - mean.num]
        IN  /\ mean.den > 0
            /\ pages = <<>> => mean.num = 0
            /\ Len(pages) = 1 => deviation[1] = 0
            /\ Len(pages) = 2 => deviation[1] + deviation[2] = 0
            /\ Len(pages) = 3 => deviation[1] + deviation[2] + deviation[3] = 0
            /\ Len(pages) <= MaxUnitLen + 1

\* overall_ssim has returned 85 % for a result of status "error" whose two
\* pages scored 0.90 and 0.80.
C14_Witness ==
    /\ uout.done
    /\ uin.op = "overall_ssim"
    /\ uin.cr.status = "error"
    /\ Len(uin.cr.pages) = 2
    /\ uin.cr.pages[1].ssim_score = 900
    /\ uin.cr.pages[2].ssim_score = 800
    /\ uout.val.num = 85000 * uout.val.den

\* C15: the approval workflow never changes the ComparisonResult compare_one
\* built: whichever decision the reviewer takes, the result that is returned
\* and collected is the one computed against the baseline as the comparison
\* found it, so the result of an approved document still stands as failed.
C15_ReviewLeavesResultUnchanged ==
    wf.state \in {"Approved", "Rejected", "Skipped"} =>
        LET returned == run.results[Len(run.results)]
            computed == CompareFrame(cur.stem, cur.doc, wf.store0,
                                     run.threshold).result
        IN  /\ returned.status = computed.status
            /\ returned.pages = computed.pages
            /\ returned.ref_page_count = computed.ref_page_count
            /\ returned.test_page_count = computed.test_page_count
            /\ passed(returned) = passed(computed)
            /\ returned = cur.result
            /\ ~passed(returned)

\* A document has been approved, the baseline has been replaced, and the result
\* collected for it is a completed comparison that did not pass.
C15_Witness ==
    /\ wf.state = "Approved"
    /\ store # wf.store0
    /\ run.results # <<>>
    /\ run.results[Len(run.results)].status = "completed"
    /\ ~passed(run.results[Len(run.results)])

\* C16: when the workflow enters Reviewing, a diff file <stem>_page_<k>_diff.png
\* is in the output directory for every page k of the result that failed and
\* is written for no page that passed, all before the reviewer's response is
\* read.
C16_DiffsOfFailedPagesBeforePrompt ==
    (pc = "prompt" /\ wf.state = "Reviewing") =>
        LET pages == cur.result.pages
            failed == {pages[i].page : i \in {j \in 1..Len(pages) : ~pages[j].passed}}
            good == {pages[i].page : i \in {j \in 1..Len(pages) : pages[j].passed}}
        IN  /\ \A k \in failed : DiffFile(cur.stem, k) \in outdir
            /\ \A k \in good : DiffFile(cur.stem, k) \notin outdir \ wf.out0
            /\ outdir = wf.out0 \cup {DiffFile(cur.stem, k) : k \in failed}
            /\ wf.raw = <<>>

\* The reviewer is being prompted for a document of which one page passed and
\* another failed, and the diff of the failed page is in the output directory.
C16_Witness ==
    /\ pc = "prompt"
    /\ wf.state = "Reviewing"
    /\ \E i, j \in 1..Len(cur.result.pages) :
           /\ cur.result.pages[i].passed
           /\ ~cur.result.pages[j].passed
           /\ DiffFile(cur.stem, j) \in outdir

\* C17: compare_directory returns exactly one result per *.pdf of the test
\* directory, in ascending lexicographic order of file name, each document
\* processed from start to finish before the next begins; an empty test
\* directory gives the empty list.
C17_OneResultPerPdfInNameOrder ==
    (run.started /\ exc = "none") =>
        LET present == {stem \in Stems : docs[stem].kind # "absent"}
            done == [i \in 1..Len(run.results) |-> run.results[i].test_name]
            all == done \o run.queue
        IN  /\ Range(all) = present
            /\ Len(all) = Cardinality(present)
            /\ \A i, j \in 1..Len(all) :
                   i < j => LexLess(StemToks(all[i]), StemToks(all[j]))
            /\ pc = "idle" => run.queue = <<>>
            /\ pc = "prompt" => cur.stem = Head(run.queue)
            /\ pc = "loop" => wf.state # "Reviewing"
            /\ present = {} => run.results = <<>> /\ pc = "idle"

\* compare_directory has returned the results of the two documents, the one of
\* S.pdf before the one of S_page_1.pdf, after a review of the first.
C17_Witness ==
    /\ pc = "idle"
    /\ run.started
    /\ run.interactive
    /\ exc = "none"
    /\ Len(run.results) = 2
    /\ run.results[1].test_name = "S"
    /\ run.results[2].test_name = "S_page_1"
    /\ ~passed(run.results[1])

\* C18: for the compare command main returns exit code 0 if and only if every
\* ComparisonResult of the batch has passed, and 1 otherwise.
C18_ExitCodeZeroIffAllPassed ==
    /\ (pc = "idle" /\ run.started /\ exc = "none") => run.exit_code # -1
    /\ run.exit_code # -1 =>
           LET ok(r) == /\ r.status = "completed"
                        /\ r.ref_page_count = r.test_page_count
                        /\ \A i \in 1..Len(r.pages) : r.pages[i].passed
           IN  /\ run.queue = <<>>
               /\ run.exit_code \in {0, 1}
               /\ run.exit_code = 0 <=>
                      \A i \in 1..Len(run.results) : ok(run.results[i])

\* main has returned 1 for a batch of two documents of which one passed.
C18_Witness ==
    /\ run.exit_code = 1
    /\ Len(run.results) = 2
    /\ \E i, j \in 1..2 : passed(run.results[i]) /\ ~passed(run.results[j])

\* C19: the ssim_score of the PageResult compare_images returns lies between 0
\* and 1 for every pair of images.
C19_ScoreBetweenZeroAndOne ==
    (uout.done /\ uin.op = "compare_images") =>
        /\ uout.val.ssim_score >= 0
        /\ uout.val.ssim_score <= 1000

\* C20: compare_images of an image and an identical copy of it gives an
\* ssim_score of at least 0.99 and passed true at every threshold up to 99.0,
\* and at the threshold 100.0 as well.
C20_IdenticalImagesPass ==
    (uout.done /\ uin.op = "compare_images"
        /\ Pixels(uin.ref_img) = Pixels(uin.test_img)) =>
        /\ uout.val.ssim_score >= 990
        /\ uin.threshold <= 990 => uout.val.passed
        /\ uin.threshold = 1000 => uout.val.passed

\* compare_images has passed, at the threshold 100.0, a white image against
\* another image that is white as well.
C20_Witness ==
    /\ uout.done
    /\ uin.op = "compare_images"
    /\ uin.ref_img = <<"px", 1, 0>>
    /\ uin.test_img = <<"px", 0, 1>>
    /\ uin.threshold = 1000
    /\ uout.val.ssim_score >= 990
    /\ uout.val.passed

\* C21: _ensure_same_size returns two images that both have the height
\* max(h1, h2) and the width max(w1, w2); when the two shapes are equal already
\* it returns the two inputs themselves.
C21_SameSizeIsMaxOfEachAxis ==
    (uout.done /\ uin.op = "_ensure_same_size") =>
        LET s1 == uin.img1.shape
            s2 == uin.img2.shape
            h == IF s1[1] > s2[1] THEN s1[1] ELSE s2[1]
            w == IF s1[2] > s2[2] THEN s1[2] ELSE s2[2]
        IN  /\ uout.val[1].shape = <<h, w>>
            /\ uout.val[2].shape = <<h, w>>
            /\ s1 = s2 => uout.val = <<uin.img1, uin.img2>>

\* Images of shape (50, 80) and (100, 60) have both come back with shape
\* (100, 80).
C21_Witness ==
    /\ uout.done
    /\ uin.op = "_ensure_same_size"
    /\ uin.img1.shape = <<50, 80>>
    /\ uin.img2.shape = <<100, 60>>
    /\ uout.val[1].shape = <<100, 80>>
    /\ uout.val[2].shape = <<100, 80>>

\* C22: approving a document of stem S creates, overwrites or deletes baseline
\* pages of S only: the baseline files of every other stem T, a stem that
\* extends S such as "S_page_1" included, and their contents are the same
\* before and after the workflow, and no file of T is counted as a page of S.
C22_ApprovalTouchesOwnPagesOnly ==
    wf.state = "Approved" =>
        \A other \in Stems \ {cur.stem} :
            \A k \in 1..MaxPages :
                LET name == PageFile(other, k)
                IN  /\ name \in DOMAIN store <=> name \in DOMAIN wf.store0
                    /\ name \in DOMAIN store \cap DOMAIN wf.store0 =>
                           store[name] = wf.store0[name]
                    /\ name \notin Range(cur.ref_paths)

\* C23: after an approval of a document has completed and with the document
\* file unchanged, the next compare_one of the document returns a "completed"
\* result with equal page counts in which every page i was compared against
\* its own approved image <stem>_page_<i>.png, for every page count N >= 1.
\* (Stated for listings that hold pages of the stem only.)
C23_ApproveThenCompareRoundTrip ==
    (/\ cur.stem \in run.prev_approved
     /\ cur.err = "none"
     /\ \A name \in Range(cur.ref_paths) :
            name = PageFile(cur.stem, PageNumOf(name))) =>
        /\ cur.result.status = "completed"
        /\ cur.result.ref_page_count = cur.result.test_page_count
        /\ \A i \in 1..Len(cur.result.pages) :
               /\ cur.ref_paths[i] = PageFile(cur.stem, i)
               /\ cur.result.pages[i].diff_overlay.base = cur.test_images[i]

\* C24: the page images an approval writes to the baseline are the candidate
\* pages that were scored and whose diff overlays the reviewer was shown, also
\* when another process replaces the test PDF while the workflow waits at the
\* prompt.
C24_ApprovalWritesScoredPages ==
    wf.state = "Approved" =>
        /\ PagesOf(store, cur.stem) = 1..Len(cur.test_images)
        /\ \A k \in 1..Len(cur.test_images) :
               /\ PageFile(cur.stem, k) \in DOMAIN store
               /\ store[PageFile(cur.stem, k)] = cur.test_images[k]

\* C25: the approval workflow is entered at most once per candidate document,
\* and only when interactive review is requested and the outcome is
\* "completed": for a "missing_reference" or an "error" outcome no prompt is
\* made and the baseline is unchanged, also with interactive = True.
C25_WorkflowOnlyForCompletedOutcome ==
    [][pc = "loop" =>
          /\ store' = store
          /\ wf'.state # "none" =>
                 /\ run.interactive
                 /\ cur'.result.status = "completed"
                 /\ cur'.stem = Head(run.queue)
                 /\ \A i \in 1..Len(run.results) :
                        run.results[i].test_name # cur'.stem
          /\ cur'.result.status \in {"missing_reference", "error"} =>
                 /\ wf'.state = "none"
                 /\ ~wf'.prompted
                 /\ pc' # "prompt"]_vars

\* An interactive run has returned from compare_one with an "error" result
\* without entering the workflow, the baseline in place.
C25_Witness ==
    /\ run.interactive
    /\ cur.result.status = "error"
    /\ wf.state = "none"
    /\ pc # "prompt"
    /\ store # NoFiles
    /\ store = run.store0

\* C26: when init_references has completed, the baseline holds for each PDF
\* of the source directory exactly the pages 1..N of its rendering, N the
\* page count of the document, also when the reference directory held pages
\* beyond N for that stem from an earlier baseline.
C26_InitLeavesExactlyRenderedPages ==
    [][(init_references /\ exc' = "none") =>
          \A stem \in Stems :
              docs[stem].kind # "absent" =>
                  /\ PagesOf(store', stem) = 1..docs[stem].n
                  /\ \A k \in 1..docs[stem].n :
                         store'[PageFile(stem, k)] = <<stem, docs[stem].v, k>>]_vars

\* C27: in compare_images a pixel is flagged exactly when its byte-valued
\* divergence round((1 - map) * 255) is above the sensitivity threshold 15,
\* for every value of the map, negative ones included; and the pixels of the
\* overlay that are not flagged equal the pixel of the baseline.
C27_FlaggedIffRoundedDivergenceAbove15 ==
    (uout.done /\ uin.op = "overlay_pixel") =>
        LET rounded == ((1000 - uin.m) * 255 + 500) \div 1000
        IN  /\ uout.val.flagged <=> rounded > 15
            /\ ~uout.val.flagged => uout.val.blended = uin.ref_px

====
